---- MODULE Spec2Model ----
(***************************************************************************)
(* The vesting program of programs/vesting/src/lib.rs as a state machine:  *)
(* the VestingAccount and EmployeeAccount records, the treasury token      *)
(* account, the cluster clock, and the three instructions                  *)
(* create_vesting_account, create_employee_vesting and claim_tokens.       *)
(*                                                                         *)
(* The program computes in i64 and hands an amount to the token program as *)
(* u64.  The model keeps both widths, scaled down: I64_MAX stands for      *)
(* i64::MAX, I64_MIN == -I64_MAX - 1 for i64::MIN and U64_MAX ==           *)
(* 2 * I64_MAX + 1 for u64::MAX, so saturation, checked multiplication,    *)
(* division overflow and the signed-to-unsigned cast behave as they do in  *)
(* the program, at a width the model checker can enumerate.                *)
(***************************************************************************)
EXTENDS Integers, FiniteSets, Sequences, TLC

VARIABLES
    now,          \* Clock::get()?.unix_timestamp
    pools,        \* company_name -> VestingAccount, the accounts that exist
    treasury,     \* company_name -> balance (u64) of its treasury token account
    schedules,    \* <<beneficiary, company_name>> -> EmployeeAccount
    deposits,     \* number of deposits made into treasuries so far
    deposited,    \* company_name -> the sum of the deposits into its treasury
    last          \* the last instruction processed and its result

vars == <<now, pools, treasury, schedules, deposits, deposited, last>>

----------------------------------------------------------------------------
(* Bounds of the model *)

\* the scaled i64::MAX
I64_MAX == 1048575

\* the number of deposits into treasuries the model follows
MaxDeposits == 2

I64_MIN == -I64_MAX - 1

U64_MAX == 2 * I64_MAX + 1

\* the values the cluster clock takes, in seconds
ClockTimes == {0, 49, 50, 100}

\* the terms create_employee_vesting is called with
StartTimes == {0, 50, 100}

EndTimes == {50, 100}

CliffTimes == {0, 50}

TotalAmounts == {7, 1000, -1001, I64_MAX, -I64_MAX}

\* the amounts deposited into a treasury
DepositAmounts == {1020, I64_MAX, U64_MAX}

Identities == {"admin", "alice"}

Beneficiaries == {"alice"}

CompanyNames == {"acme"}

Mints == {"usdc"}

ScheduleKeys == Beneficiaries \X CompanyNames

----------------------------------------------------------------------------
(* i64 arithmetic as the program uses it *)

Abs(x) == IF x < 0 THEN -x ELSE x

\* i64::saturating_sub: the difference clamped to [i64::MIN, i64::MAX]
saturating_sub(a, b) ==
    IF a - b > I64_MAX THEN I64_MAX
    ELSE IF a - b < I64_MIN THEN I64_MIN
    ELSE a - b

\* does a * b fit i64?  Decided by division, as the product itself may not
\* be representable.
MulFits(a, b) ==
    \/ a = 0
    \/ b = 0
    \/ /\ (a < 0) = (b < 0)
       /\ Abs(a) <= I64_MAX \div Abs(b)
    \/ /\ (a < 0) # (b < 0)
       /\ Abs(a) <= (I64_MAX + 1) \div Abs(b)

\* a product computed without the overflow check: it wraps into i64
wrapping_mul(a, b) ==
    <<((a * b - I64_MIN) % (U64_MAX + 1)) + I64_MIN>>

\* i64::checked_mul: <<product>> for Some(product), <<>> for None
checked_mul(a, b) == IF MulFits(a, b) THEN <<a * b>> ELSE <<>>

\* i64 `/`: the quotient truncated toward zero (b # 0)
TruncDiv(a, b) ==
    IF (a < 0) = (b < 0) THEN Abs(a) \div Abs(b) ELSE -(Abs(a) \div Abs(b))

\* i64 `/` panics when the quotient is not representable: i64::MIN / -1
DivOverflows(a, b) == a = I64_MIN /\ b = -1

\* `x as u64` of an i64: the two's complement bits read as unsigned
as_u64(x) == IF x < 0 THEN x + U64_MAX + 1 ELSE x

----------------------------------------------------------------------------
(* The accounts *)

VestingAccount(signer, mint, company_name) ==
    [owner |-> signer,
     mint |-> mint,
     treasury_token_account |-> <<"vesting_treasury", company_name>>,
     company_name |-> company_name]

EmployeeAccount(beneficiary, start_time, end_time, total_amount, cliff_time, vesting_account) ==
    [beneficiary |-> beneficiary,
     start_time |-> start_time,
     end_time |-> end_time,
     total_amount |-> total_amount,
     total_withdrawn |-> 0,
     cliff_time |-> cliff_time,
     vesting_account |-> vesting_account]

\* what an instruction did: its result, and for a transfer the amount and
\* the owner of the token account it went to
Result(op, signer, key, result, amount) ==
    [op |-> op, signer |-> signer, key |-> key, result |-> result,
     amount |-> amount, to |-> ""]

NoKey == <<"", "">>

Init ==
    /\ now = 0
    /\ pools = <<>>
    /\ treasury = [c \in CompanyNames |-> 0]
    /\ schedules = <<>>
    /\ deposits = 0
    /\ deposited = [c \in CompanyNames |-> 0]
    /\ last = Result("none", "", NoKey, "Ok", 0)

----------------------------------------------------------------------------
(* claim_tokens, lines 68-109: the entitlement computation *)

\* the cliff test off by one: the cliff second itself still rejected
before_cliff_inclusive(emp, t) == t <= emp.cliff_time

\* line 71: the claim comes before the cliff
before_cliff(emp, t) == t < emp.cliff_time

\* the elapsed time measured from the cliff instead of the start
time_since_cliff(emp, t) == saturating_sub(t, emp.cliff_time)

time_since_start(emp, t) == saturating_sub(t, emp.start_time)

\* the vesting period measured from the cliff instead of the start
vesting_time_from_cliff(emp) == saturating_sub(emp.end_time, emp.cliff_time)

total_vesting_time(emp) == saturating_sub(emp.end_time, emp.start_time)

\* the outcome of lines 68-109 for the account emp at clock value t:
\* an error kind, or "Transfer" with the claimable amount
Entitlement(emp, t) ==
    IF before_cliff(emp, t)
    THEN [kind |-> "ClaimNotAvailableYet", vested |-> 0, claimable |-> 0]
    ELSE IF total_vesting_time(emp) = 0
    THEN [kind |-> "InvalidVestingPeriod", vested |-> 0, claimable |-> 0]
    ELSE IF t >= emp.end_time
    THEN [kind |-> IF saturating_sub(emp.total_amount, emp.total_withdrawn) = 0
                   THEN "NothingToClaim" ELSE "Transfer",
          vested |-> emp.total_amount,
          claimable |-> saturating_sub(emp.total_amount, emp.total_withdrawn)]
    ELSE LET product == checked_mul(emp.total_amount, time_since_start(emp, t))
         IN  IF product = <<>>
             THEN [kind |-> "CalculationOverflow", vested |-> 0, claimable |-> 0]
             ELSE IF DivOverflows(product[1], total_vesting_time(emp))
             THEN [kind |-> "Panic", vested |-> 0, claimable |-> 0]
             ELSE LET vested_amount ==
                          TruncDiv(product[1], total_vesting_time(emp))
                      claimable_amount ==
                          saturating_sub(vested_amount, emp.total_withdrawn)
                  IN  [kind |-> IF claimable_amount = 0
                                THEN "NothingToClaim" ELSE "Transfer",
                       vested |-> vested_amount,
                       claimable |-> claimable_amount]

----------------------------------------------------------------------------
(* The instructions *)

\* create_vesting_account: `init` of the account seeded by company_name
CreatePool(signer, mint, company_name) ==
    /\ IF company_name \in DOMAIN pools
       THEN /\ last' = Result("CreatePool", signer, NoKey, "AccountAlreadyInUse", 0)
            /\ UNCHANGED pools
       ELSE /\ pools' = pools @@ (company_name :> VestingAccount(signer, mint, company_name))
            /\ last' = Result("CreatePool", signer, NoKey, "Ok", 0)
    /\ UNCHANGED <<now, treasury, schedules, deposits, deposited>>

\* the owner check left out: anyone may add a schedule to a pool
has_one_owner_skipped(signer, company_name) == TRUE

\* `has_one = owner` of CreateEmployeeAccount.vesting_account, owner a Signer
has_one_owner(signer, company_name) == pools[company_name].owner = signer

\* create_employee_vesting under the constraints of CreateEmployeeAccount
CreateSchedule(signer, beneficiary, company_name, start_time, end_time, total_amount, cliff_time) ==
    LET key == <<beneficiary, company_name>>
        outcome ==
            IF company_name \notin DOMAIN pools THEN "AccountNotInitialized"
            ELSE IF ~has_one_owner(signer, company_name) THEN "ConstraintHasOne"
            ELSE IF key \in DOMAIN schedules THEN "AccountAlreadyInUse"
            ELSE "Ok"
    IN  /\ last' = Result("CreateSchedule", signer, key, outcome, 0)
        /\ schedules' =
               IF outcome = "Ok"
               THEN schedules @@
                    (key :> EmployeeAccount(beneficiary, start_time, end_time,
                                            total_amount, cliff_time, company_name))
               ELSE schedules
        /\ UNCHANGED <<now, pools, treasury, deposits, deposited>>

\* tokens arriving in a treasury token account from outside the program
Deposit(company_name, amount) ==
    /\ company_name \in DOMAIN pools
    /\ deposits < MaxDeposits
    /\ treasury[company_name] + amount <= U64_MAX
    /\ treasury' = [treasury EXCEPT ![company_name] = @ + amount]
    /\ deposits' = deposits + 1
    /\ deposited' = [deposited EXCEPT ![company_name] = @ + amount]
    /\ last' = Result("Deposit", "", NoKey, "Ok", amount)
    /\ UNCHANGED <<now, pools, schedules>>

\* the cluster clock moves forward
Tick(t) ==
    /\ t > now
    /\ now' = t
    /\ last' = Result("Tick", "", NoKey, "Ok", 0)
    /\ UNCHANGED <<pools, treasury, schedules, deposits, deposited>>

\* token_interface::transfer_checked of amount out of the treasury: it fails
\* when the treasury holds less, and it may fail for reasons of its own
TransferFails(company_name, amount, port_ok) ==
    \/ ~port_ok
    \/ treasury[company_name] < amount

\* the treasury check left out: any treasury token account is accepted
has_one_treasury_skipped(vesting_account, treasury_of) == TRUE

\* `has_one = treasury_token_account` of ClaimTokens.vesting_account: the
\* treasury passed, the one of the pool treasury_of, is the pool's own
has_one_treasury(vesting_account, treasury_of) ==
    pools[vesting_account].treasury_token_account = <<"vesting_treasury", treasury_of>>

\* the update writes the remaining grant instead of the amount withdrawn
withdraw_from_total(emp, claimable_amount) ==
    [emp EXCEPT !.total_amount = @ - claimable_amount]

\* line 137: employee_account.total_withdrawn += claimable_amount
withdraw(emp, claimable_amount) ==
    [emp EXCEPT !.total_withdrawn = @ + claimable_amount]

\* the transfer goes to the token account of the pool's owner
pays_owner(signer, vesting_account) == pools[vesting_account].owner

\* lines 220-227: employee_token_account is the associated token account
\* whose authority is the beneficiary that signs; the transfer goes to it
pays(signer, vesting_account) == signer

\* the accounts of ClaimTokens as passed: the employee account at key, the
\* vesting account of the pool vesting_account, the treasury token account
\* of the pool treasury_of, and the instruction argument company_name.
\* The outcome of the constraints of lines 195-231.
ClaimAccounts(signer, key, vesting_account, company_name, treasury_of) ==
    IF \/ key \notin DOMAIN schedules
       \/ vesting_account \notin DOMAIN pools
       \/ treasury_of \notin DOMAIN pools
    THEN "AccountNotInitialized"
    ELSE IF key # <<signer, vesting_account>> \/ vesting_account # company_name
    THEN "ConstraintSeeds"
    ELSE IF \/ schedules[key].beneficiary # signer
            \/ schedules[key].vesting_account # vesting_account
            \/ ~has_one_treasury(vesting_account, treasury_of)
    THEN "ConstraintHasOne"
    ELSE "Ok"

\* claim_tokens under the constraints of ClaimTokens, with the accounts as
\* passed; port_ok is whether the token program accepts a transfer the
\* treasury can cover.
ClaimWith(signer, key, vesting_account, company_name, treasury_of, port_ok) ==
    LET accounts == ClaimAccounts(signer, key, vesting_account, company_name, treasury_of)
    IN  IF accounts # "Ok"
        THEN /\ last' = Result("Claim", signer, key, accounts, 0)
             /\ UNCHANGED <<now, pools, treasury, schedules, deposits, deposited>>
        ELSE LET e == Entitlement(schedules[key], now)
                 amount == as_u64(e.claimable)
             IN  IF e.kind # "Transfer"
                 THEN /\ last' = Result("Claim", signer, key, e.kind, 0)
                      /\ UNCHANGED <<now, pools, treasury, schedules, deposits, deposited>>
                 ELSE IF TransferFails(treasury_of, amount, port_ok)
                 THEN /\ last' = Result("Claim", signer, key, "TransferError", 0)
                      /\ UNCHANGED <<now, pools, treasury, schedules, deposits, deposited>>
                 ELSE /\ treasury' = [treasury EXCEPT ![treasury_of] = @ - amount]
                      /\ schedules' =
                             [schedules EXCEPT ![key] = withdraw(@, e.claimable)]
                      /\ last' = [Result("Claim", signer, key, "Ok", amount)
                                     EXCEPT !.to = pays(signer, vesting_account)]
                      /\ UNCHANGED <<now, pools, deposits, deposited>>

\* claim_tokens with the accounts of one pool: the employee account at
\* <<beneficiary, company_name>>, the pool company_name and its treasury
Claim(signer, beneficiary, company_name, port_ok) ==
    ClaimWith(signer, <<beneficiary, company_name>>, company_name, company_name, company_name, port_ok)

Next ==
    \/ \E signer \in Identities, mint \in Mints, c \in CompanyNames :
           CreatePool(signer, mint, c)
    \/ \E signer \in Identities, b \in Beneficiaries, c \in CompanyNames,
          s \in StartTimes, e \in EndTimes, a \in TotalAmounts, cl \in CliffTimes :
           CreateSchedule(signer, b, c, s, e, a, cl)
    \/ \E c \in CompanyNames, a \in DepositAmounts : Deposit(c, a)
    \/ \E t \in ClockTimes : Tick(t)
    \/ \E signer \in Identities, b \in Beneficiaries, c \in CompanyNames,
          ok \in BOOLEAN : Claim(signer, b, c, ok)

Spec == Init /\ [][Next]_vars

----------------------------------------------------------------------------
(* Two pools and two beneficiaries, with fewer terms: the specification of *)
(* the properties that relate one schedule or pool to another.  A claim    *)
(* names its accounts freely here, the wrong ones included.                *)

PairIdentities == {"admin", "alice", "bob"}

PairAdmins == {"admin"}

PairBeneficiaries == {"alice", "bob"}

PairCompanies == {"acme", "beta"}

PairClockTimes == {0, 50, 100}

PairTotalAmounts == {1000}

PairDepositAmounts == {1020}

InitPair ==
    /\ now = 0
    /\ pools = <<>>
    /\ treasury = [c \in PairCompanies |-> 0]
    /\ schedules = <<>>
    /\ deposits = 0
    /\ deposited = [c \in PairCompanies |-> 0]
    /\ last = Result("none", "", NoKey, "Ok", 0)

NextPair ==
    \/ \E signer \in PairAdmins, mint \in Mints, c \in PairCompanies :
           CreatePool(signer, mint, c)
    \/ \E signer \in PairIdentities, b \in PairBeneficiaries, c \in PairCompanies,
          a \in PairTotalAmounts :
           CreateSchedule(signer, b, c, 0, 100, a, 0)
    \/ \E c \in PairCompanies, a \in PairDepositAmounts : Deposit(c, a)
    \/ \E t \in PairClockTimes : Tick(t)
    \/ \E signer \in PairIdentities, b \in PairBeneficiaries,
          c \in PairCompanies, va \in PairCompanies, tr \in PairCompanies,
          ok \in BOOLEAN :
           ClaimWith(signer, <<b, c>>, va, va, tr, ok)

SpecPair == InitPair /\ [][NextPair]_vars

----------------------------------------------------------------------------
(* What the properties below speak of *)

\* the last instruction was a claim that got past the account constraints
\* into claim_tokens
ClaimEntered(r) ==
    /\ r.op = "Claim"
    /\ r.result \notin {"AccountNotInitialized", "ConstraintSeeds", "ConstraintHasOne"}

\* the last instruction was a claim that paid
ClaimPaid(r) == r.op = "Claim" /\ r.result = "Ok"

\* total_amount * (t - start_time), as an integer, is outside i64
ProductOutOfRange(emp, t) ==
    \/ emp.total_amount * (t - emp.start_time) > I64_MAX
    \/ emp.total_amount * (t - emp.start_time) < I64_MIN

\* the integer quotient a / b truncated toward zero, for b > 0
Quotient(a, b) == IF a >= 0 THEN a \div b ELSE -((-a) \div b)

----------------------------------------------------------------------------
\* C1: in every reachable state every schedule has
\* total_withdrawn <= total_amount.  Stated for the schedules granted a
\* total_amount >= 0: one granted a negative amount exceeds it from creation.
C1_WithdrawnWithinTotal ==
    \A k \in DOMAIN schedules :
        schedules[k].total_amount >= 0
            => schedules[k].total_withdrawn <= schedules[k].total_amount

\* C2: total_withdrawn starts at 0 and never decreases: a claim that fails
\* leaves it unchanged, a claim that succeeds makes it strictly larger.
C2_Step ==
    /\ \A k \in DOMAIN schedules' \ DOMAIN schedules :
           schedules'[k].total_withdrawn = 0
    /\ \A k \in DOMAIN schedules :
           /\ k \in DOMAIN schedules'
           /\ schedules'[k].total_withdrawn >= schedules[k].total_withdrawn
           /\ (last'.op = "Claim" /\ last'.key = k /\ last'.result = "Ok")
                  => schedules'[k].total_withdrawn > schedules[k].total_withdrawn
           /\ (last'.op = "Claim" /\ last'.result # "Ok")
                  => schedules'[k].total_withdrawn = schedules[k].total_withdrawn

C2_WithdrawnMonotone == [][C2_Step]_vars

\* C3: in every reachable state, for every schedule for which the claim
\* computation yields a vested amount at the current clock value,
\* total_withdrawn <= vested_amount <= total_amount.  Stated for the
\* schedules granted a total_amount >= 0.
C3_WithdrawnWithinVested ==
    \A k \in DOMAIN schedules :
        LET e == Entitlement(schedules[k], now)
        IN  (schedules[k].total_amount >= 0
             /\ e.kind \in {"Transfer", "NothingToClaim"})
                => /\ schedules[k].total_withdrawn <= e.vested
                   /\ e.vested <= schedules[k].total_amount

\* C4: a claim that fails changes no schedule and no treasury balance; a
\* claim that succeeds takes out of the treasury exactly the amount by which
\* it advances total_withdrawn of its schedule, and nothing else ever
\* changes total_withdrawn or takes funds out of a treasury.
C4_Step ==
    /\ (last'.op = "Claim" /\ last'.result # "Ok")
           => /\ schedules' = schedules
              /\ treasury' = treasury
              /\ last'.amount = 0
    /\ (last'.op = "Claim" /\ last'.result = "Ok")
           => LET k == last'.key
              IN  /\ treasury[k[2]] - treasury'[k[2]] = last'.amount
                  /\ schedules'[k].total_withdrawn - schedules[k].total_withdrawn
                         = last'.amount
                  /\ last'.amount > 0
    /\ last'.op # "Claim"
           => /\ \A k \in DOMAIN schedules : schedules'[k] = schedules[k]
              /\ \A c \in CompanyNames : treasury'[c] >= treasury[c]

C4_ClaimAtomic == [][C4_Step]_vars

\* C5: at now >= end_time, whenever the claim computation gets to the
\* claimable amount it is total_amount - total_withdrawn exactly, and a
\* claim that succeeds then leaves total_withdrawn = total_amount.
C5_FullVesting ==
    \A k \in DOMAIN schedules :
        LET emp == schedules[k]
            e == Entitlement(emp, now)
        IN  now >= emp.end_time
                => /\ e.kind \in {"Transfer", "NothingToClaim"}
                          => e.claimable = emp.total_amount - emp.total_withdrawn
                   /\ (ClaimPaid(last) /\ last.key = k)
                          => emp.total_withdrawn = emp.total_amount

\* C6: for a schedule with start_time < end_time, at cliff_time <= now and
\* start_time <= now < end_time, the vested amount the claim computes (it
\* computes one unless the product is outside i64) is the truncated quotient
\* total_amount * (now - start_time) / (end_time - start_time), and a claim
\* that succeeds leaves total_withdrawn equal to it;
\* with start 0, end 100 and total 1000 a first claim at 50 pays 500 and the
\* next one, at 100, pays 500.
C6_Linear(emp, t) ==
    Quotient(emp.total_amount * (t - emp.start_time),
             emp.end_time - emp.start_time)

C6_InWindow(emp, t) ==
    /\ emp.start_time < emp.end_time
    /\ emp.cliff_time <= t
    /\ emp.start_time <= t
    /\ t < emp.end_time

C6_Example(emp) ==
    emp.start_time = 0 /\ emp.end_time = 100 /\ emp.total_amount = 1000

C6_Step ==
    /\ \A k \in DOMAIN schedules :
           LET e == Entitlement(schedules[k], now)
           IN  C6_InWindow(schedules[k], now)
                   => IF ProductOutOfRange(schedules[k], now)
                      THEN e.kind = "CalculationOverflow"
                      ELSE /\ e.kind \in {"Transfer", "NothingToClaim"}
                           /\ e.vested = C6_Linear(schedules[k], now)
    /\ (ClaimPaid(last') /\ C6_InWindow(schedules[last'.key], now))
           => schedules'[last'.key].total_withdrawn
                  = C6_Linear(schedules[last'.key], now)
    /\ (ClaimPaid(last') /\ C6_Example(schedules[last'.key]))
           => /\ (now = 50 /\ schedules[last'.key].total_withdrawn = 0)
                     => last'.amount = 500
              /\ (now = 100 /\ schedules[last'.key].total_withdrawn = 500)
                     => /\ last'.amount = 500
                        /\ schedules'[last'.key].total_withdrawn = 1000

C6_LinearVesting == [][C6_Step]_vars

\* C6 witness: the second claim of the example has paid its 500.
C6_Witness ==
    /\ ClaimPaid(last)
    /\ C6_Example(schedules[last.key])
    /\ now = 100
    /\ last.amount = 500
    /\ schedules[last.key].total_withdrawn = 1000

\* C7: a claim fails with ClaimNotAvailableYet exactly when now < cliff_time,
\* and then nothing changes and nothing is transferred.
C7_Step ==
    ClaimEntered(last')
        => /\ (last'.result = "ClaimNotAvailableYet")
                  <=> (now < schedules[last'.key].cliff_time)
           /\ last'.result = "ClaimNotAvailableYet"
                  => /\ UNCHANGED <<now, pools, treasury, schedules>>
                     /\ last'.amount = 0

C7_CliffGate == [][C7_Step]_vars

\* C7 witness: a claim one second before the cliff was rejected.
C7_Witness ==
    /\ ClaimEntered(last)
    /\ last.result = "ClaimNotAvailableYet"
    /\ now = schedules[last.key].cliff_time - 1

\* C8: when a claim has succeeded, the next claim on the same schedule at the
\* same clock value fails with NothingToClaim, transfers nothing and leaves
\* total_withdrawn unchanged.
C8_Step ==
    /\ ClaimPaid(last')
           => Entitlement(schedules'[last'.key], now').kind = "NothingToClaim"
    /\ (ClaimPaid(last) /\ ClaimEntered(last') /\ last'.key = last.key)
           => /\ last'.result = "NothingToClaim"
              /\ last'.amount = 0
              /\ UNCHANGED <<treasury, schedules>>

C8_ReplaySafe == [][C8_Step]_vars

\* C9: for a schedule with start_time = end_time every claim fails with
\* InvalidVestingPeriod, whatever now and cliff_time.
C9_DegenerateAlwaysInvalid ==
    (ClaimEntered(last)
     /\ schedules[last.key].start_time = schedules[last.key].end_time)
        => last.result = "InvalidVestingPeriod"

\* C9 as amended: for a schedule with start_time = end_time every claim
\* fails and changes nothing: with InvalidVestingPeriod when now >=
\* cliff_time, with ClaimNotAvailableYet when now < cliff_time.
C9_Step ==
    (ClaimEntered(last')
     /\ schedules[last'.key].start_time = schedules[last'.key].end_time)
        => /\ last'.result =
                  IF now >= schedules[last'.key].cliff_time
                  THEN "InvalidVestingPeriod" ELSE "ClaimNotAvailableYet"
           /\ last'.amount = 0
           /\ UNCHANGED <<now, pools, treasury, schedules>>

C9_DegenerateRejected == [][C9_Step]_vars

\* C9 witness: a claim past the cliff of a schedule with start_time =
\* end_time was rejected with InvalidVestingPeriod.
C9_Witness ==
    /\ ClaimEntered(last)
    /\ schedules[last.key].start_time = schedules[last.key].end_time
    /\ now > schedules[last.key].cliff_time
    /\ last.result = "InvalidVestingPeriod"

\* C10: for start_time # end_time and cliff_time <= now < end_time, when
\* total_amount * time_since_start does not fit i64 the claim fails with
\* CalculationOverflow, nothing is transferred and nothing changes.
C10_Step ==
    (/\ ClaimEntered(last')
     /\ schedules[last'.key].start_time # schedules[last'.key].end_time
     /\ schedules[last'.key].cliff_time <= now
     /\ now < schedules[last'.key].end_time
     /\ ProductOutOfRange(schedules[last'.key], now))
        => /\ last'.result = "CalculationOverflow"
           /\ last'.amount = 0
           /\ UNCHANGED <<now, pools, treasury, schedules>>

C10_OverflowGuard == [][C10_Step]_vars

\* C10 witness: a claim was rejected with CalculationOverflow.
C10_Witness ==
    /\ ClaimEntered(last)
    /\ last.result = "CalculationOverflow"
    /\ ProductOutOfRange(schedules[last.key], now)

\* the last instruction was a claim stopped by the account constraints
ClaimRefused(r) ==
    /\ r.op = "Claim"
    /\ r.result \in {"AccountNotInitialized", "ConstraintSeeds", "ConstraintHasOne"}

\* C11, the authorization alone: funds leave a treasury only in a claim that
\* succeeds, signed by the beneficiary of a schedule bound to the pool of
\* that treasury, and go to that beneficiary; a claim signed by anyone else
\* fails and changes nothing.
C11_AuthorizedStep ==
    /\ \A c \in DOMAIN treasury :
           treasury'[c] < treasury[c]
               => /\ ClaimPaid(last')
                  /\ last'.key \in DOMAIN schedules
                  /\ last'.key[2] = c
                  /\ schedules[last'.key].vesting_account = c
                  /\ schedules[last'.key].beneficiary = last'.signer
                  /\ last'.to = schedules[last'.key].beneficiary
                  /\ \A d \in DOMAIN treasury \ {c} : treasury'[d] = treasury[d]
    /\ (last'.op = "Claim" /\ last'.key \in DOMAIN schedules
        /\ schedules[last'.key].beneficiary # last'.signer)
           => /\ ClaimRefused(last')
              /\ UNCHANGED <<now, pools, treasury, schedules>>

\* C11: funds leave a treasury only in a claim that succeeds, signed by the
\* beneficiary of a schedule bound to the pool of that treasury, paid to
\* that beneficiary, and the amount that leaves is exactly the claimable
\* amount computed for that schedule; a claim signed by anyone else, or
\* naming another pool or treasury, fails and moves nothing.
C11_Step ==
    /\ C11_AuthorizedStep
    /\ \A c \in DOMAIN treasury :
           treasury'[c] < treasury[c]
               => treasury[c] - treasury'[c]
                      = Entitlement(schedules[last'.key], now).claimable

C11_OnlyEntitledClaimsPay == [][C11_Step]_vars

C11_Authorized == [][C11_AuthorizedStep]_vars

\* C12: create_employee_vesting signed by anyone but the owner of the pool
\* fails and changes nothing, so every schedule comes into being in a
\* create_employee_vesting signed by the owner of its pool, with
\* total_withdrawn = 0.
C12_Step ==
    /\ (/\ last'.op = "CreateSchedule"
        /\ last'.key[2] \in DOMAIN pools
        /\ pools[last'.key[2]].owner # last'.signer)
           => /\ last'.result = "ConstraintHasOne"
              /\ UNCHANGED <<now, pools, treasury, schedules>>
    /\ \A k \in DOMAIN schedules' \ DOMAIN schedules :
           /\ last'.op = "CreateSchedule"
           /\ last'.result = "Ok"
           /\ last'.key = k
           /\ k[2] \in DOMAIN pools
           /\ last'.signer = pools[k[2]].owner
           /\ schedules'[k].vesting_account = k[2]
           /\ schedules'[k].beneficiary = k[1]
           /\ schedules'[k].total_withdrawn = 0

C12_OwnerCreatesSchedules == [][C12_Step]_vars

\* C12 witness: someone who does not own the pool tried to add a schedule
\* and was refused.
C12_Witness ==
    /\ last.op = "CreateSchedule"
    /\ last.result = "ConstraintHasOne"
    /\ last.key[2] \in DOMAIN pools
    /\ pools[last.key[2]].owner # last.signer
    /\ last.key \notin DOMAIN schedules

\* the claimable amount behind the amount a claim paid: the i64 that
\* `as u64` turned into r.amount, 0 for a claim that paid nothing
Claimed(r) ==
    IF ~ClaimPaid(r) THEN 0
    ELSE IF r.amount > I64_MAX THEN r.amount - U64_MAX - 1
    ELSE r.amount

\* C13: two claims on the same schedule at the same clock run one after the
\* other, the second on the total_withdrawn the first wrote, and together
\* they transfer at most vested_amount(now) minus the total_withdrawn from
\* before both.
C13_Step ==
    (/\ ClaimEntered(last)
     /\ ClaimEntered(last')
     /\ last'.key = last.key)
        => LET emp == schedules[last.key]
               withdrawn_before == emp.total_withdrawn - Claimed(last)
           IN  last.amount + last'.amount
                   <= Entitlement(emp, now).vested - withdrawn_before

C13_NoDoublePayment == [][C13_Step]_vars

\* C15: in every claim past the cliff, on a schedule with
\* start_time < end_time, time_since_start is not negative, and the claim
\* at cliff_time <= now < start_time fails with NothingToClaim and changes
\* nothing.
C15_Step ==
    (/\ ClaimEntered(last')
     /\ ~before_cliff(schedules[last'.key], now)
     /\ schedules[last'.key].start_time < schedules[last'.key].end_time)
        => /\ time_since_start(schedules[last'.key], now) >= 0
           /\ now < schedules[last'.key].start_time
                  => /\ last'.result = "NothingToClaim"
                     /\ UNCHANGED <<now, pools, treasury, schedules>>

C15_ElapsedNeverNegative == [][C15_Step]_vars

\* C16: for every schedule with end_time <= start_time the vesting time is
\* 0 and every claim at now >= cliff_time fails with InvalidVestingPeriod
\* and changes nothing.
C16_Step ==
    (/\ ClaimEntered(last')
     /\ schedules[last'.key].end_time <= schedules[last'.key].start_time
     /\ ~before_cliff(schedules[last'.key], now))
        => /\ total_vesting_time(schedules[last'.key]) = 0
           /\ last'.result = "InvalidVestingPeriod"
           /\ UNCHANGED <<now, pools, treasury, schedules>>

C16_InvertedPeriodRejected == [][C16_Step]_vars

\* C18: the amount of every transfer a claim makes is strictly positive and
\* at most total_amount - total_withdrawn of the schedule, and the
\* claimable amount behind it, which is added to total_withdrawn, is not
\* negative.
C18_Step ==
    ClaimPaid(last')
        => /\ last'.amount > 0
           /\ last'.amount <= schedules[last'.key].total_amount
                                  - schedules[last'.key].total_withdrawn
           /\ Entitlement(schedules[last'.key], now).claimable >= 0
           /\ schedules'[last'.key].total_withdrawn
                  >= schedules[last'.key].total_withdrawn

C18_TransferWithinRemainder == [][C18_Step]_vars

\* the sum of total_withdrawn over the schedules of keys bound to pool c
RECURSIVE WithdrawnOf(_, _)
WithdrawnOf(keys, c) ==
    IF keys = {} THEN 0
    ELSE LET k == CHOOSE x \in keys : TRUE
         IN  (IF schedules[k].vesting_account = c
              THEN schedules[k].total_withdrawn ELSE 0)
                 + WithdrawnOf(keys \ {k}, c)

\* C19: for every pool, the treasury balance plus the total_withdrawn of
\* all the schedules of the pool equals the amount deposited into the
\* treasury, and the balance is never negative.
C19_Conservation ==
    \A c \in DOMAIN treasury :
        /\ treasury[c] >= 0
        /\ treasury[c] + WithdrawnOf(DOMAIN schedules, c) = deposited[c]

\* what claim_tokens does for the schedule emp at time t when the treasury
\* of its pool holds balance and the token program accepts what the
\* treasury covers: its result and the amount it pays
OutcomeOf(emp, balance, t) ==
    LET e == Entitlement(emp, t)
    IN  IF e.kind # "Transfer" THEN <<e.kind, 0>>
        ELSE IF balance < as_u64(e.claimable) THEN <<"TransferError", 0>>
        ELSE <<"Ok", as_u64(e.claimable)>>

\* what claim_tokens by the beneficiary of schedule k, with the accounts of
\* its pool, would do now
Outcome(k) ==
    OutcomeOf(schedules[k], treasury[schedules[k].vesting_account], now)

\* the same after the step
OutcomeAfter(k) ==
    OutcomeOf(schedules'[k], treasury'[schedules'[k].vesting_account], now')

\* C14 as stated: a claim on one schedule never changes the outcome of a
\* claim on another schedule, be it of the same pool.
C14_FullyIndependentStep ==
    ClaimPaid(last')
        => \A k \in DOMAIN schedules \ {last'.key} : OutcomeAfter(k) = Outcome(k)

C14_FullyIndependent == [][C14_FullyIndependentStep]_vars

\* C14, amended: a claim that pays nothing changes nothing; a claim that
\* pays leaves every other schedule as it is, so its vested and claimable
\* amounts are the same; it never changes the outcome of a claim on a
\* schedule of another pool; on a schedule of the same pool it can change
\* the outcome only by draining the treasury they share, from a payment to
\* TransferError.
C14_Step ==
    last'.op = "Claim"
        => IF ~ClaimPaid(last')
           THEN UNCHANGED <<now, pools, treasury, schedules>>
           ELSE \A k \in DOMAIN schedules \ {last'.key} :
                    LET before == Outcome(k)
                        after == OutcomeAfter(k)
                    IN  /\ schedules'[k] = schedules[k]
                        /\ now' = now
                        /\ schedules[last'.key].vesting_account
                               # schedules[k].vesting_account
                                  => after = before
                        /\ after # before
                               => /\ before[1] = "Ok"
                                  /\ after = <<"TransferError", 0>>

C14_IndependentButForTreasury == [][C14_Step]_vars

\* C14 witness: a claim was paid while a schedule of another pool stands
\* to be paid from its own treasury.
C14_Witness ==
    /\ ClaimPaid(last)
    /\ \E k \in DOMAIN schedules :
           /\ k # last.key
           /\ schedules[k].vesting_account # schedules[last.key].vesting_account
           /\ Outcome(k)[1] = "Ok"

\* C17: a claim changes nothing of the pools, adds and removes no schedule,
\* and changes no field of any schedule but total_withdrawn of the claimed
\* one, and that only when it pays; create_employee_vesting changes no pool
\* and no schedule that exists.
C17_Step ==
    /\ last'.op = "Claim"
           => /\ pools' = pools
              /\ DOMAIN schedules' = DOMAIN schedules
              /\ \A k \in DOMAIN schedules :
                     IF k = last'.key /\ ClaimPaid(last')
                     THEN schedules'[k] =
                              [schedules[k] EXCEPT !.total_withdrawn =
                                   schedules'[k].total_withdrawn]
                     ELSE schedules'[k] = schedules[k]
    /\ last'.op = "CreateSchedule"
           => /\ pools' = pools
              /\ \A k \in DOMAIN schedules : schedules'[k] = schedules[k]

C17_ClaimFrame == [][C17_Step]_vars

\* C17 witness: a claim was paid on one schedule while another exists.
C17_Witness ==
    /\ ClaimPaid(last)
    /\ schedules[last.key].total_withdrawn > 0
    /\ \E k \in DOMAIN schedules : k # last.key

----------------------------------------------------------------------------
(* The program with a beneficiary who keeps claiming: whenever a claim by   *)
(* the beneficiary of a schedule, with the accounts of its pool and a token *)
(* program that accepts what the treasury covers, would change something,   *)
(* it is eventually made.                                                   *)

LiveStartTimes == {0, 50}

LiveEndTimes == {50, 100}

LiveTotalAmounts == {7, 1000}

LiveDepositAmounts == {1020, U64_MAX}

LiveNext ==
    \/ \E signer \in Identities, mint \in Mints, c \in CompanyNames :
           CreatePool(signer, mint, c)
    \/ \E signer \in Identities, b \in Beneficiaries, c \in CompanyNames,
          s \in LiveStartTimes, e \in LiveEndTimes, a \in LiveTotalAmounts,
          cl \in CliffTimes :
           CreateSchedule(signer, b, c, s, e, a, cl)
    \/ \E c \in CompanyNames, a \in LiveDepositAmounts : Deposit(c, a)
    \/ \E t \in ClockTimes : Tick(t)
    \/ \E signer \in Identities, b \in Beneficiaries, c \in CompanyNames,
          ok \in BOOLEAN : Claim(signer, b, c, ok)

FairClaims ==
    \A k \in ScheduleKeys : WF_vars(Claim(k[1], k[1], k[2], TRUE))

LiveSpec == Init /\ [][LiveNext]_vars /\ FairClaims

\* schedule k vests over a proper period a positive amount
C20_Proper(k) ==
    /\ k \in DOMAIN schedules
    /\ schedules[k].start_time < schedules[k].end_time
    /\ schedules[k].total_amount > 0

\* the clock has reached max(cliff_time, end_time) of schedule k and the
\* treasury of its pool holds total_amount - total_withdrawn
C20_Ready(k) ==
    /\ C20_Proper(k)
    /\ now >= schedules[k].cliff_time
    /\ now >= schedules[k].end_time
    /\ treasury[schedules[k].vesting_account]
           >= schedules[k].total_amount - schedules[k].total_withdrawn

\* schedule k is paid out and a claim on it fails with NothingToClaim
C20_Done(k) ==
    /\ C20_Proper(k)
    /\ schedules[k].total_withdrawn = schedules[k].total_amount
    /\ Outcome(k) = <<"NothingToClaim", 0>>

\* C20: for a schedule with start_time < end_time and total_amount > 0,
\* once the clock has reached max(cliff_time, end_time) and the treasury
\* holds total_amount - total_withdrawn, a beneficiary who keeps claiming
\* eventually has total_withdrawn = total_amount, and from then on every
\* claim fails with NothingToClaim.
C20_EventuallyPaidOut ==
    \A k \in ScheduleKeys : C20_Ready(k) ~> [](C20_Done(k))

\* C20 witness: the claim that completes the payment of a vested schedule
\* has just been paid.
C20_Witness ==
    /\ ClaimPaid(last)
    /\ C20_Done(last.key)
    /\ now >= schedules[last.key].end_time

====
